---- MODULE Spec2Model ----
(***************************************************************************)
(* Model of src/drug_db.py: the OTC record store, the name index built    *)
(* from it at import time, and the query functions over both              *)
(* (find_drugs_in_text_raw, group_by_base, find_drugs_in_text,            *)
(* find_preps_by_generic_name, find_by_generic_name).                     *)
(*                                                                         *)
(* A Python str is a sequence of characters; a character is a one-letter  *)
(* TLA+ string, or "U+XXXX" for a CJK ideograph.  A JSON value is a       *)
(* record [t, v]: t its Python type, v its content.  A record of the      *)
(* store is referred to by its position in OTC_DB: json.load builds one   *)
(* dict object per array element, so position and id() coincide.          *)
(***************************************************************************)
EXTENDS Integers, Sequences, FiniteSets, TLC

VARIABLES source, phase, OTC_DB, NAME_INDEX, op, arg, ret

vars == <<source, phase, OTC_DB, NAME_INDEX, op, arg, ret>>

(***************************************************************************)
(* Characters, in code point order (the order of Python's str comparison). *)
(***************************************************************************)
UpperLetters ==
  <<"A","B","C","D","E","F","G","H","I","J","K","L","M",
    "N","O","P","Q","R","S","T","U","V","W","X","Y","Z">>

LowerLetters ==
  <<"a","b","c","d","e","f","g","h","i","j","k","l","m",
    "n","o","p","q","r","s","t","u","v","w","x","y","z">>

\* 乙 了 他 匹 吃 司 命 基 对 布 得 必 林 氨 洛 片 生 素 维 芬 酚 酰 阿
Ideographs ==
  <<"U+4E59","U+4E86","U+4ED6","U+5339","U+5403","U+53F8","U+547D","U+57FA",
    "U+5BF9","U+5E03","U+5F97","U+5FC5","U+6797","U+6C28","U+6D1B","U+7247",
    "U+751F","U+7D20","U+7EF4","U+82AC","U+9170","U+915A","U+963F">>

CodePointOrder ==
  <<" ", "(", ")", ",", "5">> \o UpperLetters \o <<"_">> \o LowerLetters \o Ideographs

Range(s) == {s[i] : i \in 1..Len(s)}

\* The rank of a character among the characters of the model.
Ord(c) == CHOOSE i \in 1..Len(CodePointOrder) : CodePointOrder[i] = c

\* str.isspace() of one character.
IsSpace(c) == c = " "

\* Mutant of IsWordChar: \w as under re.ASCII, where no ideograph is a word
\* character.
IsWordCharAscii(c) ==
  c \in Range(UpperLetters) \cup Range(LowerLetters) \cup {"5", "_"}

\* What the regex class \w matches in a str pattern: Unicode letters
\* (ideographs included), digits and the underscore.
IsWordChar(c) ==
  c \in Range(UpperLetters) \cup Range(LowerLetters) \cup Range(Ideographs) \cup {"5", "_"}

LowerChar(c) ==
  IF c \in Range(UpperLetters)
    THEN LowerLetters[CHOOSE i \in 1..26 : UpperLetters[i] = c]
    ELSE c

UpperChar(c) ==
  IF c \in Range(LowerLetters)
    THEN UpperLetters[CHOOSE i \in 1..26 : LowerLetters[i] = c]
    ELSE c

\* str.lower() and str.upper().
Lower(s) == [i \in 1..Len(s) |-> LowerChar(s[i])]

Upper(s) == [i \in 1..Len(s) |-> UpperChar(s[i])]

RECURSIVE LStrip(_)
LStrip(s) == IF s /= <<>> /\ IsSpace(Head(s)) THEN LStrip(Tail(s)) ELSE s

RECURSIVE RStrip(_)
RStrip(s) ==
  IF s /= <<>> /\ IsSpace(s[Len(s)]) THEN RStrip(SubSeq(s, 1, Len(s) - 1)) ELSE s

\* str.strip().
Strip(s) == RStrip(LStrip(s))

\* Python's < on two str: lexicographic by code point.
RECURSIVE StrLess(_, _)
StrLess(a, b) ==
  IF b = <<>> THEN FALSE
  ELSE IF a = <<>> THEN TRUE
  ELSE IF Head(a) = Head(b) THEN StrLess(Tail(a), Tail(b))
  ELSE Ord(Head(a)) < Ord(Head(b))

\* a in b, for two str.
IsSubstring(a, b) ==
  \E i \in 1..(Len(b) - Len(a) + 1) : SubSeq(b, i, i + Len(a) - 1) = a

(***************************************************************************)
(* JSON values as Python objects.                                          *)
(***************************************************************************)
Str(s) == [t |-> "str", v |-> s]

None == [t |-> "NoneType", v |-> <<>>]

\* The int 5; v is its str().
Int5 == [t |-> "int", v |-> <<"5">>]

List(l) == [t |-> "list", v |-> l]

Dict(d) == [t |-> "dict", v |-> d]

\* A module-level name that was never bound (the import stopped before it).
Unbound == [t |-> "unbound", v |-> <<>>]

\* Python truthiness of the values of the model.
Truthy(x) == x.t = "int" \/ (x.t \in {"str", "list"} /\ x.v /= <<>>)

\* d.get(key, default) on the dict inside the value d.
Get(d, key, default) == IF key \in DOMAIN d.v THEN d.v[key] ELSE default

\* x or y
Or(x, y) == IF Truthy(x) THEN x ELSE y

(***************************************************************************)
(* The str literals of src/drug_db.py.                                     *)
(***************************************************************************)
\* "vitamin c"
s_vitamin_c == <<"v", "i", "t", "a", "m", "i", "n", " ", "c">>

\* "ibuprofen"
s_ibuprofen == <<"i", "b", "u", "p", "r", "o", "f", "e", "n">>

\* "acetaminophen"
s_acetaminophen == <<"a", "c", "e", "t", "a", "m", "i", "n", "o", "p", "h", "e", "n">>

\* "aspirin"
s_aspirin == <<"a", "s", "p", "i", "r", "i", "n">>

\* "VITAMIN C"
s_VITAMIN_C == <<"V", "I", "T", "A", "M", "I", "N", " ", "C">>

\* "ASCORBIC ACID"
s_ASCORBIC_ACID == <<"A", "S", "C", "O", "R", "B", "I", "C", " ", "A", "C", "I", "D">>

\* "IBUPROFEN"
s_IBUPROFEN == <<"I", "B", "U", "P", "R", "O", "F", "E", "N">>

\* "ACETAMINOPHEN"
s_ACETAMINOPHEN == <<"A", "C", "E", "T", "A", "M", "I", "N", "O", "P", "H", "E", "N">>

\* "ASPIRIN"
s_ASPIRIN == <<"A", "S", "P", "I", "R", "I", "N">>

\* "维C"
zh_wei_C == <<"U+7EF4", "C">>

\* "维生素C"
zh_weishengsu_C == <<"U+7EF4", "U+751F", "U+7D20", "C">>

\* "维他命C"
zh_weitaming_C == <<"U+7EF4", "U+4ED6", "U+547D", "C">>

\* "布洛芬"
zh_buluofen == <<"U+5E03", "U+6D1B", "U+82AC">>

\* "对乙酰氨基酚"
zh_duiyixiananjifen == <<"U+5BF9", "U+4E59", "U+9170", "U+6C28", "U+57FA", "U+915A">>

\* "阿司匹林"
zh_asipilin == <<"U+963F", "U+53F8", "U+5339", "U+6797">>

(***************************************************************************)
(* Outcomes of a call: a returned value or a raised exception.             *)
(***************************************************************************)
Return(x) == [kind |-> "return", value |-> x]

Raise(e) == [kind |-> "raise", value |-> e]

\* m.get(key, default) on a dict literal written as a sequence of <<key, value>>.
DictGet(m, key, default) ==
  IF \E i \in 1..Len(m) : m[i][1] = key
    THEN m[CHOOSE i \in 1..Len(m) : m[i][1] = key][2]
    ELSE default

\* The dict object OTC_DB[i], by identity.
Ref(i) == [t |-> "ref", v |-> i]

(***************************************************************************)
(* Loading and indexing                                                    *)
(***************************************************************************)
\* Mutant of load_check_entries: an entry is rejected only when it lacks both
\* required fields ("and" for "or").
RECURSIVE load_check_entries_lacking_both(_, _)
load_check_entries_lacking_both(data, i) ==
  IF i > Len(data.v) THEN Return(data)
  ELSE IF data.v[i].t /= "dict" THEN Raise("ValueError: Each OTC DB entry must be a dict.")
  ELSE IF "base_name" \notin DOMAIN data.v[i].v /\ "generic_name" \notin DOMAIN data.v[i].v
    THEN Raise("ValueError: Each entry must contain 'base_name' and 'generic_name'.")
  ELSE load_check_entries_lacking_both(data, i + 1)

\* The loop of load_otc_db over data, from entry i on.
RECURSIVE load_check_entries(_, _)
load_check_entries(data, i) ==
  IF i > Len(data.v) THEN Return(data)
  ELSE IF data.v[i].t /= "dict" THEN Raise("ValueError: Each OTC DB entry must be a dict.")
  ELSE IF "base_name" \notin DOMAIN data.v[i].v \/ "generic_name" \notin DOMAIN data.v[i].v
    THEN Raise("ValueError: Each entry must contain 'base_name' and 'generic_name'.")
  ELSE load_check_entries(data, i + 1)

\* load_otc_db(), with data the document json.load read from OTC_DB_PATH.
load_otc_db(data) ==
  IF data.t /= "list"
    THEN Raise("ValueError: OTC DB must be a list of records.")
    ELSE load_check_entries(data, 1)

\* The dict literal of _normalize_name.
mapping ==
  << <<zh_wei_C, s_vitamin_c>>,
     <<zh_weishengsu_C, s_vitamin_c>>,
     <<zh_weitaming_C, s_vitamin_c>>,
     <<zh_buluofen, s_ibuprofen>>,
     <<zh_duiyixiananjifen, s_acetaminophen>>,
     <<zh_asipilin, s_aspirin>> >>

\* _normalize_name(name), name a str or None; the result is a str.
_normalize_name(name) ==
  IF ~Truthy(name) THEN <<>>
  ELSE LET n == Lower(Strip(name.v))
       IN  DictGet(mapping, n, n)

\* The alias loop of _build_name_index: the normalized non-empty str aliases.
RECURSIVE index_alias_names(_, _)
index_alias_names(aliases, i) ==
  IF i > Len(aliases) THEN <<>>
  ELSE LET alias == aliases[i]
           n == IF alias.t = "str" THEN _normalize_name(alias) ELSE <<>>
       IN  (IF n /= <<>> THEN <<n>> ELSE <<>>) \o index_alias_names(aliases, i + 1)

\* Mutant of unique_names: the de-duplication is missing.
unique_names_keeping_repeats(names, seen) == names

\* The de-duplication loop: names without their repeated occurrences.
RECURSIVE unique_names(_, _)
unique_names(names, seen) ==
  IF names = <<>> THEN <<>>
  ELSE IF Head(names) \in seen THEN unique_names(Tail(names), seen)
  ELSE <<Head(names)>> \o unique_names(Tail(names), seen \cup {Head(names)})

\* The names _build_name_index collects for one entry, in order.
entry_names(entry) ==
  LET base_name == _normalize_name(Get(entry, "base_name", Str(<<>>)))
      generic_name == _normalize_name(Get(entry, "generic_name", Str(<<>>)))
      names == (IF generic_name /= <<>> THEN <<generic_name>> ELSE <<>>)
               \o (IF base_name /= <<>> /\ base_name /= generic_name
                     THEN <<base_name>> ELSE <<>>)
      aliases == Or(Get(entry, "aliases", None), List(<<>>))
  IN  unique_names(names \o index_alias_names(aliases.v, 1), {})

\* _build_name_index(db), from entry e on: a flat list of (name, entry).
RECURSIVE build_index_from(_, _)
build_index_from(db, e) ==
  IF e > Len(db) THEN <<>>
  ELSE LET ns == entry_names(db[e])
       IN  [k \in 1..Len(ns) |-> [name |-> ns[k], entry |-> e]]
           \o build_index_from(db, e + 1)

_build_name_index(db) == build_index_from(db, 1)

(***************************************************************************)
(* Matching helpers                                                        *)
(***************************************************************************)
\* Mutant of _build_word_boundary_pattern: the lookbehind (?<!\w) is missing.
pattern_without_lookbehind(name) ==
  [literal |-> name, lookbehind_not_word |-> FALSE, lookahead_not_word |-> TRUE,
   ignorecase |-> TRUE]

\* Mutant of _build_word_boundary_pattern: the lookahead (?!\w) is missing.
pattern_without_lookahead(name) ==
  [literal |-> name, lookbehind_not_word |-> TRUE, lookahead_not_word |-> FALSE,
   ignorecase |-> TRUE]

\* _build_word_boundary_pattern(name): the compiled (?<!\w)escaped(?!\w)
\* with re.IGNORECASE.  re.escape makes every character of name a literal.
_build_word_boundary_pattern(name) ==
  [literal |-> name, lookbehind_not_word |-> TRUE, lookahead_not_word |-> TRUE,
   ignorecase |-> TRUE]

\* Two characters are the same to the regex engine under the pattern's flags.
char_matches(pattern, a, b) ==
  IF pattern.ignorecase THEN LowerChar(a) = LowerChar(b) ELSE a = b

\* The pattern matches text with the literal starting at position i.
pattern_matches_at(pattern, text, i) ==
  LET n == Len(pattern.literal)
  IN  /\ i + n - 1 <= Len(text)
      /\ pattern.lookbehind_not_word => (i = 1 \/ ~IsWordChar(text[i - 1]))
      /\ \A j \in 1..n : char_matches(pattern, text[i + j - 1], pattern.literal[j])
      /\ pattern.lookahead_not_word => (i + n > Len(text) \/ ~IsWordChar(text[i + n]))

\* bool(pattern.search(text)), scanning the start positions from i on.
RECURSIVE pattern_search(_, _, _)
pattern_search(pattern, text, i) ==
  IF i > Len(text) THEN FALSE
  ELSE IF pattern_matches_at(pattern, text, i) THEN TRUE
  ELSE pattern_search(pattern, text, i + 1)

\* Mutant of _match_single_name_in_text: the test len(name) < 2 is missing.
match_single_name_of_any_length(text, name) ==
  IF name = <<>> THEN FALSE
  ELSE pattern_search(_build_word_boundary_pattern(name), text, 1)

\* _match_single_name_in_text(text, name)
_match_single_name_in_text(text, name) ==
  IF name = <<>> \/ Len(name) < 2 THEN FALSE
  ELSE pattern_search(_build_word_boundary_pattern(name), text, 1)

(***************************************************************************)
(* Public query functions                                                  *)
(***************************************************************************)
\* Mutant of raw_loop: seen_ids is not consulted.
RECURSIVE raw_loop_without_seen_ids(_, _, _, _)
raw_loop_without_seen_ids(index, text, k, matched) ==
  IF k > Len(index) THEN matched
  ELSE IF _match_single_name_in_text(text, index[k].name)
    THEN raw_loop_without_seen_ids(index, text, k + 1, Append(matched, index[k].entry))
  ELSE raw_loop_without_seen_ids(index, text, k + 1, matched)

\* The loop of find_drugs_in_text_raw over the index from entry k on;
\* matched is the list built so far (the entries in it are seen_ids).
RECURSIVE raw_loop(_, _, _, _)
raw_loop(index, text, k, matched) ==
  IF k > Len(index) THEN matched
  ELSE IF index[k].entry \in Range(matched) THEN raw_loop(index, text, k + 1, matched)
  ELSE IF _match_single_name_in_text(text, index[k].name)
    THEN raw_loop(index, text, k + 1, Append(matched, index[k].entry))
  ELSE raw_loop(index, text, k + 1, matched)

\* find_drugs_in_text_raw(text) over the index: the matched entries, by reference.
find_drugs_in_text_raw(index, text) ==
  LET t == Or(text, Str(<<>>))
  IN  IF Strip(t.v) = <<>> THEN <<>>
      ELSE raw_loop(index, t.v, 1, <<>>)

\* Mutant of sorted_strs: the order is descending.
RECURSIVE sorted_strs_descending(_)
sorted_strs_descending(s) ==
  IF s = {} THEN <<>>
  ELSE LET m == CHOOSE x \in s : \A y \in s : x = y \/ StrLess(y, x)
       IN  <<m>> \o sorted_strs_descending(s \ {m})

\* sorted(list(s)) of a set of str.
RECURSIVE sorted_strs(_)
sorted_strs(s) ==
  IF s = {} THEN <<>>
  ELSE LET m == CHOOSE x \in s : \A y \in s : x = y \/ StrLess(x, y)
       IN  <<m>> \o sorted_strs(s \ {m})

\* The str aliases of one entry, as group_by_base collects them.
str_aliases(prep) ==
  LET aliases == Or(Get(prep, "aliases", None), List(<<>>))
  IN  {aliases.v[i].v : i \in {j \in 1..Len(aliases.v) : aliases.v[j].t = "str"}}

\* Mutant of group_add: the groups are keyed by the base name as written, not
\* by its normalized form.
group_add_keyed_as_written(db, groups, p) ==
  LET prep == db[p]
      base == Or(Or(Get(prep, "base_name", None), Get(prep, "generic_name", None)),
                 Str(<<>>))
      fresh == [key |-> base.v,
                base_name |-> base.v,
                generic_name |-> Or(Get(prep, "generic_name", None), base).v,
                aliases |-> {},
                preps |-> <<>>]
      gs == IF \E i \in 1..Len(groups) : groups[i].key = base.v
              THEN groups ELSE Append(groups, fresh)
      at == CHOOSE i \in 1..Len(gs) : gs[i].key = base.v
      own == IF Get(prep, "generic_name", None).t = "str"
               THEN {prep.v["generic_name"].v} ELSE {}
  IN  [gs EXCEPT ![at].preps = Append(@, p),
                 ![at].aliases = @ \cup str_aliases(prep) \cup own]

\* One turn of the loop of group_by_base: groups (the dict, in insertion
\* order, each group with its key) after prep, the entry db[p], is added.
group_add(db, groups, p) ==
  LET prep == db[p]
      base == Or(Or(Get(prep, "base_name", None), Get(prep, "generic_name", None)),
                 Str(<<>>))
      base_norm == _normalize_name(base)
      fresh == [key |-> base_norm,
                base_name |-> base.v,
                generic_name |-> Or(Get(prep, "generic_name", None), base).v,
                aliases |-> {},
                preps |-> <<>>]
      gs == IF \E i \in 1..Len(groups) : groups[i].key = base_norm
              THEN groups ELSE Append(groups, fresh)
      at == CHOOSE i \in 1..Len(gs) : gs[i].key = base_norm
      own == IF Get(prep, "generic_name", None).t = "str"
               THEN {prep.v["generic_name"].v} ELSE {}
  IN  [gs EXCEPT ![at].preps = Append(@, p),
                 ![at].aliases = @ \cup str_aliases(prep) \cup own]

RECURSIVE group_loop(_, _, _, _)
group_loop(db, preps, i, groups) ==
  IF i > Len(preps) THEN groups
  ELSE group_loop(db, preps, i + 1, group_add(db, groups, preps[i]))

\* list.sort(key=base_name) is stable: g goes behind every group whose
\* base_name is not greater than its own.
RECURSIVE insert_by_base_name(_, _)
insert_by_base_name(sorted, g) ==
  IF sorted = <<>> THEN <<g>>
  ELSE IF StrLess(g.base_name, Head(sorted).base_name) THEN <<g>> \o sorted
  ELSE <<Head(sorted)>> \o insert_by_base_name(Tail(sorted), g)

\* Mutant of sort_by_base_name: the groups stay in insertion order.
sort_by_base_name_skipped(result, i) == SubSeq(result, 1, i)

RECURSIVE sort_by_base_name(_, _)
sort_by_base_name(result, i) ==
  IF i = 0 THEN <<>>
  ELSE insert_by_base_name(sort_by_base_name(result, i - 1), result[i])

\* group_by_base(preps), preps a list of entries of db by reference.
group_by_base(db, preps) ==
  LET groups == group_loop(db, preps, 1, <<>>)
      result == [i \in 1..Len(groups) |->
                   [base_name |-> groups[i].base_name,
                    generic_name |-> groups[i].generic_name,
                    aliases |-> sorted_strs(groups[i].aliases),
                    preps |-> groups[i].preps]]
  IN  sort_by_base_name(result, Len(result))

\* find_drugs_in_text(text)
find_drugs_in_text(db, index, text) ==
  group_by_base(db, find_drugs_in_text_raw(index, text))

\* The entry loop of find_preps_by_generic_name from entry i on.
RECURSIVE preps_loop(_, _, _)
preps_loop(db, name_norm, i) ==
  IF i > Len(db) THEN <<>>
  ELSE LET entry == db[i]
           g == _normalize_name(Get(entry, "generic_name", Str(<<>>)))
           aliases == Or(Get(entry, "aliases", None), List(<<>>))
           hit == \/ g = name_norm
                  \/ \E j \in 1..Len(aliases.v) :
                       /\ aliases.v[j].t = "str"
                       /\ _normalize_name(aliases.v[j]) = name_norm
       IN  (IF hit THEN <<i>> ELSE <<>>) \o preps_loop(db, name_norm, i + 1)

\* find_preps_by_generic_name(name)
find_preps_by_generic_name(db, name) ==
  LET name_norm == _normalize_name(name)
  IN  IF name_norm = <<>> THEN <<>> ELSE preps_loop(db, name_norm, 1)

\* The dict literal of find_by_generic_name.
SYNONYMS ==
  << <<zh_wei_C, s_VITAMIN_C>>,
     <<zh_weishengsu_C, s_VITAMIN_C>>,
     <<zh_weitaming_C, s_VITAMIN_C>>,
     <<s_ASCORBIC_ACID, s_VITAMIN_C>>,
     <<zh_buluofen, s_IBUPROFEN>>,
     <<zh_duiyixiananjifen, s_ACETAMINOPHEN>>,
     <<zh_asipilin, s_ASPIRIN>> >>

\* str(a) of an alias entry.
PyStr(a) == IF a.t = "NoneType" THEN <<"N", "o", "n", "e">> ELSE a.v

\* Mutant of search_name_of: SYNONYMS is consulted with the raw name only.
search_name_raw_only(name) ==
  LET raw_name == Strip(name.v)
  IN  DictGet(SYNONYMS, raw_name, Upper(raw_name))

\* The search key find_by_generic_name derives from a non-empty name.
search_name_of(name) ==
  LET raw_name == Strip(name.v)
  IN  DictGet(SYNONYMS, raw_name,
              DictGet(SYNONYMS, Upper(raw_name), Upper(raw_name)))

\* The scan of find_by_generic_name over OTC_DB from entry i on.
RECURSIVE resolve_loop(_, _, _)
resolve_loop(db, search_name, i) ==
  IF i > Len(db) THEN Return(None)
  ELSE LET drug == db[i]
           aliases == Get(drug, "aliases", List(<<>>))
       IN  IF search_name = Upper(Or(Get(drug, "generic_name", None), Str(<<>>)).v)
             THEN Return(Ref(i))
           ELSE IF aliases.t /= "list"
             THEN Raise("TypeError: 'NoneType' object is not iterable")
           ELSE IF \E j \in 1..Len(aliases.v) : Upper(PyStr(aliases.v[j])) = search_name
             THEN Return(Ref(i))
           ELSE IF IsSubstring(search_name,
                               Upper(Or(Get(drug, "base_name", None), Str(<<>>)).v))
             THEN Return(Ref(i))
           ELSE resolve_loop(db, search_name, i + 1)

\* find_by_generic_name(name)
find_by_generic_name(db, name) ==
  IF ~Truthy(name) THEN Return(None)
  ELSE resolve_loop(db, search_name_of(name), 1)

(***************************************************************************)
(* The inputs of the model: datasets, texts and names.                     *)
(***************************************************************************)
\* Most entries of a dataset.
MaxStore == 2

\* Most pieces a text is put together from.
MaxPieces == 2

\* Most entries handed to group_by_base directly.
MaxPreps == 2

s_ADVIL == <<"A", "D", "V", "I", "L">>

s_Advil == <<"A", "d", "v", "i", "l">>

s_Fenbid == <<"F", "e", "n", "b", "i", "d">>

\* "芬必得", a brand name that is no key of mapping or SYNONYMS
zh_fenbide == <<"U+82AC", "U+5FC5", "U+5F97">>

\* "片" (tablet)
zh_pian == <<"U+7247">>

s_x == <<"x">>

\* "Ibuprofen (Advil)"
s_Ibuprofen_Advil ==
  <<"I", "b", "u", "p", "r", "o", "f", "e", "n", " ", "(", "A", "d", "v", "i", "l", ")">>

\* The record of the spec's scenario.
IBU ==
  Dict([base_name |-> Str(s_IBUPROFEN), generic_name |-> Str(s_IBUPROFEN),
        aliases |-> List(<<Str(s_ADVIL), Str(zh_buluofen)>>)])

\* "Ibuprofen ", the base name IBUPROFEN in another case and with a
\* trailing blank
s_Ibuprofen_sp == <<"I", "b", "u", "p", "r", "o", "f", "e", "n", " ">>

\* Another preparation of the same ingredient, with a Chinese brand name; its
\* base name differs from IBU's by case and surrounding whitespace only.
FEN ==
  Dict([base_name |-> Str(s_Ibuprofen_sp), generic_name |-> Str(s_Fenbid),
        aliases |-> List(<<Str(zh_fenbide)>>)])

\* A record without the aliases field.
VITC == Dict([base_name |-> Str(s_VITAMIN_C), generic_name |-> Str(s_VITAMIN_C)])

\* A record whose aliases field is null.
ASP ==
  Dict([base_name |-> Str(s_ASPIRIN), generic_name |-> Str(s_ASPIRIN), aliases |-> None])

\* A noisy record: empty and null names, a non-str alias, a one-letter alias.
NOISY ==
  Dict([base_name |-> Str(<<>>), generic_name |-> None,
        aliases |-> List(<<Int5, Str(s_x)>>)])

\* Elements load_otc_db rejects.
NO_BASE == Dict([generic_name |-> Str(s_ASPIRIN)])

NO_GENERIC == Dict([base_name |-> Str(s_ASPIRIN)])

GoodEntries == {IBU, FEN, VITC, ASP, NOISY}

BadEntries == {Int5, NO_BASE, NO_GENERIC}

SeqsUpTo(S, n) == UNION {[1..k -> S] : k \in 0..n}

\* The documents json.load may read: arrays of entries, and one object
\* that is no array.
Sources == {List(l) : l \in SeqsUpTo(GoodEntries \cup BadEntries, MaxStore)} \cup {IBU}

Pieces == {s_Advil, <<" ">>, s_x, zh_fenbide, zh_pian, zh_buluofen, s_Ibuprofen_Advil}

RECURSIVE Concat(_)
Concat(ps) == IF ps = <<>> THEN <<>> ELSE Head(ps) \o Concat(Tail(ps))

Texts == {Concat(ps) : ps \in SeqsUpTo(Pieces, MaxPieces)}

\* Candidate names for the lookups by name.
Names ==
  { <<>>, <<" ", " ", " ">>,
    zh_wei_C, <<"U+7EF4", "c">>,
    s_ASCORBIC_ACID, Lower(s_ASCORBIC_ACID),
    s_ibuprofen, zh_buluofen, <<" ">> \o s_Advil \o <<" ">>,
    s_aspirin, <<"5">>, <<"z", "z">> }

\* Candidate names for the normalisation: the names of the lookups, the
\* Chinese keys of mapping with a capital C, a padded Chinese brand name and a
\* Chinese name followed by capital Latin letters.
NormalizeNames ==
  Names \cup { zh_weishengsu_C, zh_weitaming_C, zh_duiyixiananjifen,
               <<" ">> \o zh_fenbide \o <<" ">>, zh_pian \o s_ADVIL }

(***************************************************************************)
(* The state machine: the import of the module, then calls.                *)
(***************************************************************************)
Init ==
  /\ source \in Sources
  /\ phase = "import"
  /\ OTC_DB = Unbound
  /\ NAME_INDEX = Unbound
  /\ op = "idle"
  /\ arg = None
  /\ ret = None

\* OTC_DB = load_otc_db(): an exception ends the import, nothing is bound.
Load ==
  /\ phase = "import"
  /\ LET r == load_otc_db(source)
     IN  IF r.kind = "return"
           THEN /\ OTC_DB' = r.value
                /\ phase' = "loaded"
                /\ ret' = ret
           ELSE /\ OTC_DB' = OTC_DB
                /\ phase' = "failed"
                /\ ret' = r
  /\ UNCHANGED <<source, NAME_INDEX, op, arg>>

\* NAME_INDEX = _build_name_index(OTC_DB)
BuildIndex ==
  /\ phase = "loaded"
  /\ NAME_INDEX' = List(_build_name_index(OTC_DB.v))
  /\ phase' = "ready"
  /\ UNCHANGED <<source, OTC_DB, op, arg, ret>>

Callable == phase = "ready" /\ op = "idle"

MatchRaw(text) ==
  /\ Callable
  /\ op' = "find_drugs_in_text_raw"
  /\ arg' = Str(text)
  /\ ret' = Return(find_drugs_in_text_raw(NAME_INDEX.v, Str(text)))
  /\ UNCHANGED <<source, phase, OTC_DB, NAME_INDEX>>

MatchGrouped(text) ==
  /\ Callable
  /\ op' = "find_drugs_in_text"
  /\ arg' = Str(text)
  /\ ret' = Return(find_drugs_in_text(OTC_DB.v, NAME_INDEX.v, Str(text)))
  /\ UNCHANGED <<source, phase, OTC_DB, NAME_INDEX>>

\* group_by_base as it would be if each group shared the aliases list of its
\* entries and tidied it in place: the entries passed lose their non-str
\* aliases in the store.
GroupByBaseWritingAliases(preps) ==
  /\ Callable
  /\ op' = "group_by_base"
  /\ arg' = List(preps)
  /\ ret' = Return(group_by_base(OTC_DB.v, preps))
  /\ OTC_DB' =
       List([e \in 1..Len(OTC_DB.v) |->
               IF e \in Range(preps)
                 THEN LET names == sorted_strs(str_aliases(OTC_DB.v[e]))
                          tidy == List([i \in 1..Len(names) |-> Str(names[i])])
                      IN  Dict([k \in DOMAIN OTC_DB.v[e].v \cup {"aliases"} |->
                                  IF k = "aliases" THEN tidy ELSE OTC_DB.v[e].v[k]])
                 ELSE OTC_DB.v[e]])
  /\ UNCHANGED <<source, phase, NAME_INDEX>>

GroupByBase(preps) ==
  /\ Callable
  /\ op' = "group_by_base"
  /\ arg' = List(preps)
  /\ ret' = Return(group_by_base(OTC_DB.v, preps))
  /\ UNCHANGED <<source, phase, OTC_DB, NAME_INDEX>>

FindPreps(name) ==
  /\ Callable
  /\ op' = "find_preps_by_generic_name"
  /\ arg' = Str(name)
  /\ ret' = Return(find_preps_by_generic_name(OTC_DB.v, Str(name)))
  /\ UNCHANGED <<source, phase, OTC_DB, NAME_INDEX>>

Resolve(name) ==
  /\ Callable
  /\ op' = "find_by_generic_name"
  /\ arg' = Str(name)
  /\ ret' = find_by_generic_name(OTC_DB.v, Str(name))
  /\ UNCHANGED <<source, phase, OTC_DB, NAME_INDEX>>

Normalize(name) ==
  /\ Callable
  /\ op' = "_normalize_name"
  /\ arg' = Str(name)
  /\ ret' = Return(_normalize_name(Str(name)))
  /\ UNCHANGED <<source, phase, OTC_DB, NAME_INDEX>>

\* The caller has taken the outcome of its call.
Done ==
  /\ op /= "idle"
  /\ op' = "idle"
  /\ arg' = None
  /\ ret' = None
  /\ UNCHANGED <<source, phase, OTC_DB, NAME_INDEX>>

Next ==
  \/ Load
  \/ BuildIndex
  \/ \E text \in Texts : MatchRaw(text)
  \/ \E text \in Texts : MatchGrouped(text)
  \/ \E preps \in SeqsUpTo(1..Len(OTC_DB.v), MaxPreps) : GroupByBase(preps)
  \/ \E name \in Names : FindPreps(name)
  \/ \E name \in Names : Resolve(name)
  \/ \E name \in NormalizeNames : Normalize(name)
  \/ Done

Spec == Init /\ [][Next]_vars

(***************************************************************************)
(* Vocabulary of the properties.                                           *)
(***************************************************************************)
Store == OTC_DB.v

Index == NAME_INDEX.v

\* The index keys of the record at position e of the store.
KeysOf(e) == {Index[k].name : k \in {j \in 1..Len(Index) : Index[j].entry = e}}

\* A key is logographic when it holds a CJK ideograph, Latin otherwise.
IsLogographic(s) == \E i \in 1..Len(s) : s[i] \in Range(Ideographs)

\* s occurs in text at position i, letter case aside.
OccursAt(s, text, i) ==
  /\ i + Len(s) - 1 <= Len(text)
  /\ \A j \in 1..Len(s) : LowerChar(text[i + j - 1]) = LowerChar(s[j])

\* s occurs somewhere in text, letter case aside.
Occurs(s, text) == \E i \in 1..Len(text) : OccursAt(s, text, i)

\* s occurs in text as a token: no word character right before or after it.
OccursAsToken(s, text) ==
  \E i \in 1..Len(text) :
    /\ OccursAt(s, text, i)
    /\ i = 1 \/ ~IsWordChar(text[i - 1])
    /\ i + Len(s) > Len(text) \/ ~IsWordChar(text[i + Len(s)])

\* The occurrence rule of the text matcher as the spec states it.
OccursByScript(key, text) ==
  IF IsLogographic(key) THEN Occurs(key, text) ELSE OccursAsToken(key, text)

\* A call of find_drugs_in_text_raw has returned.
RawReturned == op = "find_drugs_in_text_raw" /\ ret.kind = "return"

\* A call of find_drugs_in_text has returned.
GroupedReturned == op = "find_drugs_in_text" /\ ret.kind = "return"

\* How often the record e is among the preparations of the groups gs.
RECURSIVE CountInGroups(_, _)
CountInGroups(gs, e) ==
  IF gs = <<>> THEN 0
  ELSE Cardinality({i \in 1..Len(Head(gs).preps) : Head(gs).preps[i] = e})
       + CountInGroups(Tail(gs), e)

(***************************************************************************)
(* C1: find_drugs_in_text_raw(t) holds no record twice (by identity),      *)
(* whatever number of the record's index keys match t; grouped, such a     *)
(* record is in one group, once.                                           *)
(***************************************************************************)
C1_NoDuplicateRecord ==
  /\ RawReturned =>
       \A i, j \in 1..Len(ret.value) : ret.value[i] = ret.value[j] => i = j
  /\ GroupedReturned =>
       \A e \in 1..Len(Store) : CountInGroups(ret.value, e) <= 1

\* A record matched through two different keys of its own.
C1_Witness ==
  /\ RawReturned
  /\ \E e \in Range(ret.value) :
       \E k1, k2 \in KeysOf(e) :
         /\ k1 /= k2
         /\ OccursAsToken(k1, arg.v)
         /\ OccursAsToken(k2, arg.v)
         /\ Len(k1) >= 2
         /\ Len(k2) >= 2

(***************************************************************************)
(* C2: a logographic index key of length >= 2 matches by substring         *)
(* containment: the key's record is returned for every text that holds     *)
(* the key anywhere, also inside a longer run of ideographs.               *)
(***************************************************************************)
C2_LogographicKeyMatchesBySubstring ==
  RawReturned =>
    \A k \in 1..Len(Index) :
      ( /\ IsLogographic(Index[k].name)
        /\ Len(Index[k].name) >= 2
        /\ Occurs(Index[k].name, arg.v) )
      => Index[k].entry \in Range(ret.value)

(***************************************************************************)
(* C3: find_by_generic_name returns nothing for the empty string and for   *)
(* every whitespace-only string, whatever the store.                       *)
(***************************************************************************)
\* Stated for the calls that return: an exception is C9's matter.
C3_BlankNameResolvesToNothing ==
  (op = "find_by_generic_name" /\ Strip(arg.v) = <<>> /\ ret.kind = "return")
  => ret.value = None

(***************************************************************************)
(* C4: a record is returned by find_drugs_in_text_raw whenever its         *)
(* generic name, its base name or one of its str aliases, of length >= 2   *)
(* and as the dataset spells it, is a token of the text; Chinese aliases   *)
(* that are keys of the synonym table included.                            *)
(***************************************************************************)
\* The names of a record as the dataset spells them.
DatasetNames(entry) ==
  {x.v : x \in {y \in {Get(entry, "generic_name", None), Get(entry, "base_name", None)} :
                  y.t = "str"}}
  \cup str_aliases(entry)

C4_DatasetNameAsTokenIsMatched ==
  RawReturned =>
    \A e \in 1..Len(Store) :
      (\E n \in DatasetNames(Store[e]) : Len(n) >= 2 /\ OccursAsToken(n, arg.v))
      => e \in Range(ret.value)

(***************************************************************************)
(* C5: a Latin index key of length >= 2 matches only at a token boundary,  *)
(* letter case aside: a record is returned when such a key of it is a      *)
(* token of the text in any letter case, and a record all of whose keys    *)
(* are Latin is not returned when none of them is a token of the text.     *)
(***************************************************************************)
LatinKeysOf(e) == {k \in KeysOf(e) : ~IsLogographic(k) /\ Len(k) >= 2}

C5_LatinKeyMatchesAtTokenBoundaryOnly ==
  RawReturned =>
    \A e \in 1..Len(Store) :
      /\ (\E k \in LatinKeysOf(e) : OccursAsToken(k, arg.v)) => e \in Range(ret.value)
      /\ ( /\ \A k \in KeysOf(e) : ~IsLogographic(k)
           /\ \A k \in LatinKeysOf(e) : ~OccursAsToken(k, arg.v) )
         => e \notin Range(ret.value)

\* A Latin key occurs in the text, only inside a longer word, and its record
\* is not returned.
C5_Witness ==
  /\ RawReturned
  /\ \E e \in 1..Len(Store) :
       /\ e \notin Range(ret.value)
       /\ \E k \in LatinKeysOf(e) : Occurs(k, arg.v) /\ ~OccursAsToken(k, arg.v)

(***************************************************************************)
(* C6: every record find_drugs_in_text_raw returns for a non-empty text    *)
(* has an index key of length >= 2 that occurs in the text by the rule of  *)
(* its script: anywhere for a logographic key, as a token for a Latin one. *)
(***************************************************************************)
C6_EveryMatchHasAnOccurringKey ==
  (RawReturned /\ arg.v /= <<>>) =>
    \A e \in Range(ret.value) :
      \E k \in KeysOf(e) : Len(k) >= 2 /\ OccursByScript(k, arg.v)

\* Records are returned, one of them through a logographic key only.
C6_Witness ==
  /\ RawReturned
  /\ \E e \in Range(ret.value) :
       /\ \E k \in KeysOf(e) : IsLogographic(k) /\ Occurs(k, arg.v)
       /\ \A k \in LatinKeysOf(e) : ~OccursAsToken(k, arg.v)

(***************************************************************************)
(* C7: find_by_generic_name is first-match in store order: with the search *)
(* key k (the synonym of the trimmed name or of its upper-cased form, else *)
(* the upper-cased trimmed name) it returns the first record whose         *)
(* upper-cased generic name is k, or one of whose upper-cased aliases is   *)
(* k, or whose upper-cased base name holds k; nothing exactly when there   *)
(* is no such record.  The empty name never reaches the scan (C3).         *)
(***************************************************************************)
SynonymKeys == {SYNONYMS[i][1] : i \in 1..Len(SYNONYMS)}

SynonymOf(key) == SYNONYMS[CHOOSE i \in 1..Len(SYNONYMS) : SYNONYMS[i][1] = key][2]

SearchKey(name) ==
  LET trimmed == Strip(name)
  IN  IF trimmed \in SynonymKeys THEN SynonymOf(trimmed)
      ELSE IF Upper(trimmed) \in SynonymKeys THEN SynonymOf(Upper(trimmed))
      ELSE Upper(trimmed)

\* The text of a name field: empty when the field is null or absent.
NameText(entry, field) ==
  IF Get(entry, field, None).t = "str" THEN entry.v[field].v ELSE <<>>

\* The aliases of a record, each in its textual form, upper-cased.
UpperAliases(entry) ==
  LET aliases == Get(entry, "aliases", None)
  IN  IF aliases.t = "list"
        THEN {Upper(PyStr(aliases.v[i])) : i \in 1..Len(aliases.v)}
        ELSE {}

Satisfies(entry, k) ==
  \/ Upper(NameText(entry, "generic_name")) = k
  \/ k \in UpperAliases(entry)
  \/ IsSubstring(k, Upper(NameText(entry, "base_name")))

FirstMatch(k) ==
  LET hits == {e \in 1..Len(Store) : Satisfies(Store[e], k)}
  IN  IF hits = {} THEN None ELSE Ref(CHOOSE e \in hits : \A f \in hits : e <= f)

C7_FirstMatchInStoreOrder ==
  (op = "find_by_generic_name" /\ arg.v /= <<>>)
  => ret = Return(FirstMatch(SearchKey(arg.v)))

\* What remains of C7 next to the exception of C9: a call that returns,
\* returns the first match.
FirstMatchWhenReturned ==
  (op = "find_by_generic_name" /\ arg.v /= <<>> /\ ret.kind = "return")
  => ret.value = FirstMatch(SearchKey(arg.v))

(***************************************************************************)
(* C8: when the trimmed name is a key of the synonym table, as written or  *)
(* upper-cased, the outcome of find_by_generic_name does not depend on the *)
(* letter case of the name: it is the outcome for the key itself, and the  *)
(* search is for the key's canonical value.                                *)
(***************************************************************************)
C8_SynonymLookupIgnoresCase ==
  ( /\ op = "find_by_generic_name"
    /\ Strip(arg.v) \in SynonymKeys \/ Upper(Strip(arg.v)) \in SynonymKeys )
  => LET key == Upper(Strip(arg.v))
     IN  /\ ret = find_by_generic_name(Store, Str(key))
         /\ ( /\ Store /= <<>>
              /\ Upper(NameText(Store[1], "generic_name")) = SynonymOf(key) )
            => ret = Return(Ref(1))

\* A name in another letter case than its synonym key resolves to a record.
C8_Witness ==
  /\ op = "find_by_generic_name"
  /\ Strip(arg.v) \notin SynonymKeys
  /\ Upper(Strip(arg.v)) \in SynonymKeys
  /\ ret.kind = "return"
  /\ ret.value.t = "ref"
  /\ Upper(NameText(Store[ret.value.v], "generic_name")) = SynonymOf(Upper(Strip(arg.v)))

(***************************************************************************)
(* C9: no call of find_drugs_in_text_raw, find_drugs_in_text,              *)
(* group_by_base or find_by_generic_name raises, for any store that was    *)
(* loaded: also with an aliases field that is null, absent or holds        *)
(* entries that are no str.                                                *)
(***************************************************************************)
C9_NoCallRaises ==
  op \in {"find_drugs_in_text_raw", "find_drugs_in_text", "group_by_base",
          "find_by_generic_name"}
  => ret.kind = "return"

(***************************************************************************)
(* C10: load_otc_db is all-or-nothing: it raises when the document is no   *)
(* array, when an element is no object, or when an object lacks base_name  *)
(* or generic_name, and then neither the store nor the index exists;       *)
(* otherwise the store is the document's records in their order.           *)
(***************************************************************************)
WellFormed(doc) ==
  /\ doc.t = "list"
  /\ \A i \in 1..Len(doc.v) :
       /\ doc.v[i].t = "dict"
       /\ {"base_name", "generic_name"} \subseteq DOMAIN doc.v[i].v

C10_LoadAllOrNothing ==
  phase /= "import" =>
    IF WellFormed(source)
      THEN phase \in {"loaded", "ready"} /\ OTC_DB = source
      ELSE /\ phase = "failed"
           /\ OTC_DB = Unbound
           /\ NAME_INDEX = Unbound
           /\ ret.kind = "raise"

\* A document whose first entry is valid and whose second is not: no store.
C10_Witness ==
  /\ phase = "failed"
  /\ source.t = "list"
  /\ Len(source.v) = 2
  /\ WellFormed(List(<<source.v[1]>>))
  /\ OTC_DB = Unbound

(***************************************************************************)
(* C11: the names of the records of a loaded store.                        *)
(***************************************************************************)
\* A non-empty str.
IsNonEmptyName(x) == x.t = "str" /\ x.v /= <<>>

\* C11 (as stated): every record of a successfully loaded store has a
\* non-empty base_name and a non-empty generic_name; a source record whose
\* base_name or generic_name is the empty string or null is rejected by the
\* load.
C11_LoadedNamesAreNonEmpty ==
  phase \in {"loaded", "ready"} =>
    \A e \in 1..Len(Store) :
      /\ IsNonEmptyName(Get(Store[e], "base_name", None))
      /\ IsNonEmptyName(Get(Store[e], "generic_name", None))

\* C11 (amended): every record of a successfully loaded store is a dict that
\* has the fields base_name and generic_name, whatever their values: the load
\* rejects a record that lacks one of the two fields, and accepts one whose
\* base_name or generic_name is the empty string or null.
C11_LoadedRecordsHaveNameFields ==
  /\ phase \in {"loaded", "ready"} =>
       \A e \in 1..Len(Store) :
         /\ Store[e].t = "dict"
         /\ {"base_name", "generic_name"} \subseteq DOMAIN Store[e].v
  /\ (phase = "failed" /\ source.t = "list") =>
       \E i \in 1..Len(source.v) :
         \/ source.v[i].t /= "dict"
         \/ ~({"base_name", "generic_name"} \subseteq DOMAIN source.v[i].v)

\* A store has been loaded that holds a record with an empty base_name and a
\* null generic_name.
C11_Witness ==
  /\ phase \in {"loaded", "ready"}
  /\ \E e \in 1..Len(Store) :
       /\ Get(Store[e], "base_name", None) = Str(<<>>)
       /\ Get(Store[e], "generic_name", Str(<<>>)) = None

(***************************************************************************)
(* C12: the store and the index after construction.                        *)
(***************************************************************************)
\* The outcome of the call op(arg) on the store as loaded from source and the
\* index as built from it, with no call before it.
ResultAlone(o, a) ==
  LET db == source.v
      index == _build_name_index(db)
  IN  CASE o = "find_drugs_in_text_raw" -> Return(find_drugs_in_text_raw(index, a))
        [] o = "find_drugs_in_text" -> Return(find_drugs_in_text(db, index, a))
        [] o = "group_by_base" -> Return(group_by_base(db, a.v))
        [] o = "find_preps_by_generic_name" -> Return(find_preps_by_generic_name(db, a))
        [] o = "find_by_generic_name" -> find_by_generic_name(db, a)
        [] o = "_normalize_name" -> Return(_normalize_name(a))

GroupsReturned ==
  op \in {"group_by_base", "find_drugs_in_text"} /\ ret.kind = "return"

\* C13: the groups returned by group_by_base, and so by find_drugs_in_text,
\* are in ascending order of base_name: of two adjacent groups the first has
\* a base_name that is less than or equal to the second's.
C13_GroupsSortedByBaseName ==
  GroupsReturned =>
    \A i \in 1..(Len(ret.value) - 1) :
      ~StrLess(ret.value[i + 1].base_name, ret.value[i].base_name)

\* group_by_base was given two records of different groups with the greater
\* base_name first, and has returned the two groups in the other order.
C13_Witness ==
  /\ op = "group_by_base"
  /\ Len(arg.v) = 2
  /\ Len(ret.value) = 2
  /\ ret.value[1].preps = <<arg.v[2]>>
  /\ ret.value[2].preps = <<arg.v[1]>>
  /\ StrLess(ret.value[1].base_name, ret.value[2].base_name)

(***************************************************************************)
(* C14: records without a name in group_by_base.                           *)
(***************************************************************************)
\* The entry has neither a base_name nor a generic_name to group it by.
HasNoName(entry) ==
  /\ ~Truthy(Get(entry, "base_name", None))
  /\ ~Truthy(Get(entry, "generic_name", None))

\* C14: group_by_base drops the records whose base_name and generic_name are
\* both empty: no group holds such a record, and no group has an empty
\* base_name.
C14_RecordsWithoutNameAreDropped ==
  GroupsReturned =>
    \A g \in Range(ret.value) :
      /\ g.base_name /= <<>>
      /\ \A p \in Range(g.preps) : ~HasNoName(Store[p])

(***************************************************************************)
(* C15: the aliases of a group.                                            *)
(***************************************************************************)
\* The names a group owes to the entry: its str aliases and its generic_name.
AliasContribution(entry) ==
  {a.v : a \in {x \in Range(Or(Get(entry, "aliases", None), List(<<>>)).v) : x.t = "str"}}
  \cup (IF Get(entry, "generic_name", None).t = "str"
          THEN {Get(entry, "generic_name", None).v} ELSE {})

\* C15: the aliases of a returned group are the union of the str aliases and
\* of the generic_name of every record of the group, nothing else and nothing
\* less, each name once, in ascending order.
C15_GroupAliasesAreSortedUnion ==
  GroupsReturned =>
    \A g \in Range(ret.value) :
      /\ Range(g.aliases) = UNION {AliasContribution(Store[p]) : p \in Range(g.preps)}
      /\ \A i \in 1..(Len(g.aliases) - 1) : StrLess(g.aliases[i], g.aliases[i + 1])

\* A group of two records has been returned whose aliases come from both and
\* number four or more, a non-str alias or a repeated name left out.
C15_Witness ==
  /\ GroupsReturned
  /\ \E g \in Range(ret.value) :
       /\ Cardinality(Range(g.preps)) = 2
       /\ Len(g.aliases) >= 4
       /\ \A p \in Range(g.preps) : AliasContribution(Store[p]) /= Range(g.aliases)

(***************************************************************************)
(* C16: _normalize_name on logographic names.                              *)
(***************************************************************************)
\* C16: for a name that holds a CJK ideograph, _normalize_name returns the
\* canonical value of the synonym table when the trimmed name is a key of the
\* table (维C, 维生素C and 维他命C give the canonical name of vitamin C), and
\* the trimmed name itself otherwise, with no change of letter case.
C16_LogographicNameNormalization ==
  (op = "_normalize_name" /\ IsLogographic(arg.v)) =>
    ret.value = DictGet(mapping, Strip(arg.v), Strip(arg.v))

(***************************************************************************)
(* C17: the entries of the index.                                          *)
(***************************************************************************)
\* The name variants of the entry: its generic_name, its base_name and its
\* aliases that are str.
Variants(entry) ==
  {Get(entry, "generic_name", None), Get(entry, "base_name", None)}
  \cup {a \in Range(Or(Get(entry, "aliases", None), List(<<>>)).v) : a.t = "str"}

\* The distinct non-empty normalized variants of the entry.
NormalizedVariants(entry) ==
  {_normalize_name(x) : x \in Variants(entry)} \ {<<>>}

\* The positions of the index that hold the record e.
EntriesOf(e) == {k \in 1..Len(Index) : Index[k].entry = e}

\* C17: the index holds exactly one (key, record) entry for every distinct
\* non-empty normalized variant of every record, and no other entry: a
\* repeated variant gives one entry, an alias that is not a str gives none,
\* and a record whose variants are all empty gives none.
C17_OneIndexEntryPerDistinctVariant ==
  (phase = "ready" /\ op = "idle") =>
    /\ \A k \in 1..Len(Index) : Index[k].entry \in 1..Len(Store)
    /\ \A e \in 1..Len(Store) :
         /\ {Index[k].name : k \in EntriesOf(e)} = NormalizedVariants(Store[e])
         /\ Cardinality(EntriesOf(e)) = Cardinality(NormalizedVariants(Store[e]))

\* The index is built from a store with a record of which two variants have
\* the same normalized form and which has one entry for the two, and with a
\* record that has a non-str alias.
C17_Witness ==
  /\ phase = "ready"
  /\ op = "idle"
  /\ \E e \in 1..Len(Store) :
       /\ \E x, y \in Variants(Store[e]) :
            x /= y /\ _normalize_name(x) = _normalize_name(y) /\ _normalize_name(x) /= <<>>
       /\ Cardinality(EntriesOf(e)) = Cardinality(NormalizedVariants(Store[e]))
  /\ \E e \in 1..Len(Store) :
       \E a \in Range(Or(Get(Store[e], "aliases", None), List(<<>>)).v) : a.t /= "str"

(***************************************************************************)
(* C18: index keys of fewer than two characters.                           *)
(***************************************************************************)
\* C18: an index key of fewer than two characters never matches, so a record
\* that has no index key of two characters or more is in no result of
\* find_drugs_in_text_raw, not even for the text that is exactly its key.
C18_ShortKeysNeverMatch ==
  RawReturned =>
    \A e \in 1..Len(Store) :
      (\A k \in KeysOf(e) : Len(k) < 2) => e \notin Range(ret.value)

\* The text is exactly the one-character key of a record that has no other
\* key, and the record is not returned.
C18_Witness ==
  /\ RawReturned
  /\ \E e \in 1..Len(Store) :
       /\ KeysOf(e) = {arg.v}
       /\ Len(arg.v) = 1
       /\ e \notin Range(ret.value)

(***************************************************************************)
(* C19: the groups as a partition of the records passed.                   *)
(***************************************************************************)
\* The records group_by_base was given: its argument, or, inside
\* find_drugs_in_text, the result of find_drugs_in_text_raw on the text.
GroupInput ==
  IF op = "group_by_base" THEN arg.v ELSE find_drugs_in_text_raw(Index, arg)

\* The two entries have base names that differ at most by letter case and by
\* whitespace around them.
SameBaseName(x, y) ==
  LET bx == Get(x, "base_name", None)
      by == Get(y, "base_name", None)
  IN  /\ bx.t = "str" /\ by.t = "str"
      /\ Strip(bx.v) /= <<>>
      /\ Lower(Strip(bx.v)) = Lower(Strip(by.v))

\* C19: the groups returned partition the records passed: every record
\* passed is among the preparations of exactly one group, as the record of
\* the store itself; the preparations of a group are in the order in which
\* the records were passed; and records whose base names differ only by
\* letter case or surrounding whitespace are in the same group.
C19_GroupsPartitionInput ==
  GroupsReturned =>
    LET input == GroupInput
        gs == ret.value
    IN  /\ \A p \in Range(input) :
             Cardinality({i \in 1..Len(gs) : p \in Range(gs[i].preps)}) = 1
        /\ \A i \in 1..Len(gs) :
             LET InGroup(p) == p \in Range(gs[i].preps)
             IN  gs[i].preps = SelectSeq(input, InGroup)
        /\ \A p, q \in Range(input) :
             SameBaseName(Store[p], Store[q]) =>
               \E i \in 1..Len(gs) : {p, q} \subseteq Range(gs[i].preps)

\* group_by_base was given two records whose base names are written
\* differently but differ only by case and whitespace, and has returned one
\* group with the two in the order given, the later record of the store first.
C19_Witness ==
  /\ op = "group_by_base"
  /\ ret.kind = "return"
  /\ Len(arg.v) = 2
  /\ arg.v[1] > arg.v[2]
  /\ Get(Store[arg.v[1]], "base_name", None) /= Get(Store[arg.v[2]], "base_name", None)
  /\ SameBaseName(Store[arg.v[1]], Store[arg.v[2]])
  /\ Len(ret.value) = 1
  /\ ret.value[1].preps = arg.v

(***************************************************************************)
(* C20: ideographs at the boundary of a Latin key.                         *)
(***************************************************************************)
IsIdeograph(c) == c \in Range(Ideographs)

\* The characters of the texts that are neither letters, digits, underscores
\* nor ideographs.
Separators == {" ", "(", ")"}

\* The occurrence of s at position i of text has an ideograph right before or
\* right after it.
NextToIdeograph(s, text, i) ==
  \/ i > 1 /\ IsIdeograph(text[i - 1])
  \/ i + Len(s) <= Len(text) /\ IsIdeograph(text[i + Len(s)])

\* The occurrence of s at position i of text has an end of the text or a
\* separator on either side.
SeparatedAt(s, text, i) ==
  /\ i = 1 \/ text[i - 1] \in Separators
  /\ i + Len(s) > Len(text) \/ text[i + Len(s)] \in Separators

\* C20: a CJK ideograph counts as a word character at the boundary of a Latin
\* key. In a text that holds ideographs, a record with Latin keys only is not
\* returned when every occurrence of its keys touches an ideograph (advil in
\* 吃了advil之后), and a record is returned when one of its Latin keys occurs
\* with a separator or an end of the text on both sides.
C20_IdeographIsWordCharacterForLatinKey ==
  (RawReturned /\ IsLogographic(arg.v)) =>
    \A e \in 1..Len(Store) :
      LET keys == KeysOf(e)
          occurrences == {o \in {k \in keys : ~IsLogographic(k) /\ Len(k) >= 2}
                                 \X (1..Len(arg.v)) : OccursAt(o[1], arg.v, o[2])}
      IN  /\ ( /\ \A k \in keys : ~IsLogographic(k)
               /\ \A o \in occurrences : NextToIdeograph(o[1], arg.v, o[2]) )
             => e \notin Range(ret.value)
          /\ (\E o \in occurrences : SeparatedAt(o[1], arg.v, o[2]))
             => e \in Range(ret.value)

\* A Latin key of a record with Latin keys only occurs in the text, every
\* occurrence of the record's keys touches an ideograph, and the record is not
\* returned.
C20_Witness ==
  /\ RawReturned
  /\ \E e \in 1..Len(Store) :
       /\ \A k \in KeysOf(e) : ~IsLogographic(k)
       /\ \E k \in LatinKeysOf(e) : Occurs(k, arg.v)
       /\ \A k \in LatinKeysOf(e) : \A i \in 1..Len(arg.v) :
            OccursAt(k, arg.v, i) => NextToIdeograph(k, arg.v, i)
       /\ e \notin Range(ret.value)

====
